---- MODULE Spec2Model ----
(***************************************************************************)
(* A model of app/llm_generator.py: the generation pipeline                *)
(* generate_app_code (attachment materialisation, prompt assembly, the     *)
(* bounded retry loop with its README quality gate, fallback synthesis and *)
(* the final parse).                                                       *)
(*                                                                         *)
(* Text is modelled character by character: a Python str is a sequence of  *)
(* one-character strings, so that find, split, strip, splitlines and len   *)
(* are computed as Python computes them.  The backtick, which a TLA+       *)
(* string cannot hold, is the character BT.  Bytes are integers 0..255.    *)
(* An optional value (None or a str) is a sequence of length 0 or 1.       *)
(***************************************************************************)
EXTENDS Integers, Sequences, FiniteSets, TLC

\* the backtick character
BT == "BT"

\* the literal "---README.md---" (lines 180, 181, 208, 213, 214)
MARKER == <<"-", "-", "-", "R", "E", "A", "D", "M", "E", ".", "m", "d", "-", "-", "-">>

\* the literal of three backticks (lines 108, 109)
FENCE == <<BT, BT, BT>>

\* the literal "# " (line 183)
HASH_SP == <<"#", " ">>

\* the literal "Overview" (line 183)
OVERVIEW == <<"O", "v", "e", "r", "v", "i", "e", "w">>

\* the literal "data:" (lines 76, 80)
DATA_SCHEME == <<"d", "a", "t", "a", ":">>

\* the literal "attachment" (line 74)
DEFAULT_NAME == <<"a", "t", "t", "a", "c", "h", "m", "e", "n", "t">>

\* the literal "text" (line 95)
TEXT_MIME == <<"t", "e", "x", "t">>

EXT_MD == <<".", "m", "d">>

EXT_TXT == <<".", "t", "x", "t">>

EXT_JSON == <<".", "j", "s", "o", "n">>

EXT_CSV == <<".", "c", "s", "v">>

\* TMP_DIR with the path separator Path.__truediv__ inserts (lines 68, 82)
TMP_DIR ==
  <<
     "/", "t", "m", "p", "/", "l", "l", "m", "_", "a", "t", "t", "a", "c", "h", "m", "e",
     "n", "t", "s", "/"
  >>

\* generate_readme_fallback template, piece 0 (lines 117-133)
README_T0 ==
  <<
     "#", " ", "A", "u", "t", "o", "-", "g", "e", "n", "e", "r", "a", "t", "e", "d", " ",
     "R", "E", "A", "D", "M", "E", " ", "(", "R", "o", "u", "n", "d", " "
  >>

\* generate_readme_fallback template, piece 1 (lines 117-133)
README_T1 ==
  <<
     ")", "\n", "\n", "*", "*", "P", "r", "o", "j", "e", "c", "t", " ", "b", "r", "i", "e",
     "f", ":", "*", "*", " "
  >>

\* generate_readme_fallback template, piece 2 (lines 117-133)
README_T2 ==
  <<
     "\n", "\n", "*", "*", "A", "t", "t", "a", "c", "h", "m", "e", "n", "t", "s", ":", "*",
     "*", "\n"
  >>

\* generate_readme_fallback template, piece 3 (lines 117-133)
README_T3 ==
  <<
     "\n", "\n", "*", "*", "C", "h", "e", "c", "k", "s", " ", "t", "o", " ", "m", "e", "e",
     "t", ":", "*", "*", "\n"
  >>

\* generate_readme_fallback template, piece 4 (lines 117-133)
README_T4 ==
  <<
     "\n", "\n", "#", "#", " ", "S", "e", "t", "u", "p", "\n", "1", ".", " ", "O", "p", "e",
     "n", " ", BT, "i", "n", "d", "e", "x", ".", "h", "t", "m", "l", BT, " ", "i", "n", " ",
     "a", " ", "b", "r", "o", "w", "s", "e", "r", ".", "\n", "2", ".", " ", "N", "o", " ",
     "b", "u", "i", "l", "d", " ", "s", "t", "e", "p", "s", " ", "r", "e", "q", "u", "i",
     "r", "e", "d", ".", "\n", "\n", "#", "#", " ", "N", "o", "t", "e", "s", "\n", "T", "h",
     "i", "s", " ", "R", "E", "A", "D", "M", "E", " ", "w", "a", "s", " ", "g", "e", "n",
     "e", "r", "a", "t", "e", "d", " ", "a", "s", " ", "a", " ", "f", "a", "l", "l", "b",
     "a", "c", "k", " ", "(", "A", "I", "p", "i", "p", "e", " ", "d", "i", "d", " ", "n",
     "o", "t", " ", "r", "e", "t", "u", "r", "n", " ", "a", "n", " ", "e", "x", "p", "l",
     "i", "c", "i", "t", " ", "R", "E", "A", "D", "M", "E", ")", ".", "\n"
  >>

\* fallback response template, piece 0 (lines 199-210)
FALLBACK_T0 ==
  <<
     "\n", "<", "h", "t", "m", "l", ">", "\n", " ", " ", "<", "h", "e", "a", "d", ">", "<",
     "t", "i", "t", "l", "e", ">", "F", "a", "l", "l", "b", "a", "c", "k", " ", "A", "p",
     "p", "<", "/", "t", "i", "t", "l", "e", ">", "<", "/", "h", "e", "a", "d", ">", "\n",
     " ", " ", "<", "b", "o", "d", "y", ">", "\n", " ", " ", " ", " ", "<", "h", "1", ">",
     "H", "e", "l", "l", "o", " ", "(", "f", "a", "l", "l", "b", "a", "c", "k", ")", "<",
     "/", "h", "1", ">", "\n", " ", " ", " ", " ", "<", "p", ">", "T", "h", "i", "s", " ",
     "a", "p", "p", " ", "w", "a", "s", " ", "g", "e", "n", "e", "r", "a", "t", "e", "d",
     " ", "a", "s", " ", "a", " ", "f", "a", "l", "l", "b", "a", "c", "k", " ", "b", "e",
     "c", "a", "u", "s", "e", " ", "A", "I", "p", "i", "p", "e", " ", "f", "a", "i", "l",
     "e", "d", ".", " ", "B", "r", "i", "e", "f", ":", " "
  >>

\* fallback response template, piece 1 (lines 199-210)
FALLBACK_T1 ==
  <<
     "<", "/", "p", ">", "\n", " ", " ", "<", "/", "b", "o", "d", "y", ">", "\n", "<", "/",
     "h", "t", "m", "l", ">", "\n", "\n", "-", "-", "-", "R", "E", "A", "D", "M", "E", ".",
     "m", "d", "-", "-", "-", "\n"
  >>

\* fallback response template, piece 2 (lines 199-210)
FALLBACK_T2 == <<"\n">>

\* context_note template, piece 0 (line 142)
CONTEXT_T0 ==
  <<
     "\n", "#", "#", "#", " ", "P", "r", "e", "v", "i", "o", "u", "s", " ", "R", "E", "A",
     "D", "M", "E", ".", "m", "d", ":", "\n"
  >>

\* context_note template, piece 1 (line 142)
CONTEXT_T1 ==
  <<
     "\n", "\n", "R", "e", "v", "i", "s", "e", " ", "a", "n", "d", " ", "e", "n", "h", "a",
     "n", "c", "e", " ", "t", "h", "i", "s", " ", "p", "r", "o", "j", "e", "c", "t", " ",
     "a", "c", "c", "o", "r", "d", "i", "n", "g", " ", "t", "o", " ", "t", "h", "e", " ",
     "n", "e", "w", " ", "b", "r", "i", "e", "f", " ", "b", "e", "l", "o", "w", ".", "\n"
  >>

\* base_prompt template, piece 0 (lines 144-172)
PROMPT_T0 ==
  <<
     "\n", "Y", "o", "u", " ", "a", "r", "e", " ", "a", " ", "p", "r", "o", "f", "e", "s",
     "s", "i", "o", "n", "a", "l", " ", "w", "e", "b", " ", "d", "e", "v", "e", "l", "o",
     "p", "e", "r", " ", "a", "s", "s", "i", "s", "t", "a", "n", "t", ".", "\n", "\n", "#",
     "#", "#", " ", "R", "o", "u", "n", "d", "\n"
  >>

\* base_prompt template, piece 1 (lines 144-172)
PROMPT_T1 == <<"\n", "\n", "#", "#", "#", " ", "T", "a", "s", "k", "\n">>

\* base_prompt template, piece 2 (lines 144-172)
PROMPT_T2 == <<"\n", "\n">>

\* base_prompt template, piece 3 (lines 144-172)
PROMPT_T3 ==
  <<
     "\n", "\n", "#", "#", "#", " ", "A", "t", "t", "a", "c", "h", "m", "e", "n", "t", "s",
     " ", "(", "i", "f", " ", "a", "n", "y", ")", "\n"
  >>

\* base_prompt template, piece 4 (lines 144-172)
PROMPT_T4 ==
  <<
     "\n", "\n", "#", "#", "#", " ", "E", "v", "a", "l", "u", "a", "t", "i", "o", "n", " ",
     "c", "h", "e", "c", "k", "s", "\n"
  >>

\* base_prompt template, piece 5 (lines 144-172)
PROMPT_T5 ==
  <<
     "\n", "\n", "#", "#", "#", " ", "O", "u", "t", "p", "u", "t", " ", "f", "o", "r", "m",
     "a", "t", " ", "r", "u", "l", "e", "s", ":", "\n", "1", ".", " ", "P", "r", "o", "d",
     "u", "c", "e", " ", "a", " ", "c", "o", "m", "p", "l", "e", "t", "e", " ", "w", "e",
     "b", " ", "a", "p", "p", " ", "(", "H", "T", "M", "L", "/", "J", "S", "/", "C", "S",
     "S", " ", "i", "n", "l", "i", "n", "e", " ", "i", "f", " ", "n", "e", "e", "d", "e",
     "d", ")", " ", "s", "a", "t", "i", "s", "f", "y", "i", "n", "g", " ", "t", "h", "e",
     " ", "b", "r", "i", "e", "f", ".", "\n", "2", ".", " ", "O", "u", "t", "p", "u", "t",
     " ", "m", "u", "s", "t", " ", "c", "o", "n", "t", "a", "i", "n", " ", "*", "*", "t",
     "w", "o", " ", "p", "a", "r", "t", "s", " ", "o", "n", "l", "y", "*", "*", ":", "\n",
     " ", " ", " ", "-", " ", "i", "n", "d", "e", "x", ".", "h", "t", "m", "l", " ", "(",
     "m", "a", "i", "n", " ", "c", "o", "d", "e", ")", "\n", " ", " ", " ", "-", " ", "R",
     "E", "A", "D", "M", "E", ".", "m", "d", " ", "(", "s", "t", "a", "r", "t", "s", " ",
     "a", "f", "t", "e", "r", " ", "a", " ", "l", "i", "n", "e", " ", "c", "o", "n", "t",
     "a", "i", "n", "i", "n", "g", " ", "e", "x", "a", "c", "t", "l", "y", ":", " ", "-",
     "-", "-", "R", "E", "A", "D", "M", "E", ".", "m", "d", "-", "-", "-", ")", "\n", "3",
     ".", " ", "R", "E", "A", "D", "M", "E", ".", "m", "d", " ", "m", "u", "s", "t", " ",
     "i", "n", "c", "l", "u", "d", "e", ":", "\n", " ", " ", " ", "-", " ", "O", "v", "e",
     "r", "v", "i", "e", "w", "\n", " ", " ", " ", "-", " ", "S", "e", "t", "u", "p", "\n",
     " ", " ", " ", "-", " ", "U", "s", "a", "g", "e", "\n", " ", " ", " ", "-", " ", "I",
     "f", " ", "R", "o", "u", "n", "d", " ", "2", ",", " ", "d", "e", "s", "c", "r", "i",
     "b", "e", " ", "i", "m", "p", "r", "o", "v", "e", "m", "e", "n", "t", "s", " ", "m",
     "a", "d", "e", " ", "f", "r", "o", "m", " ", "p", "r", "e", "v", "i", "o", "u", "s",
     " ", "v", "e", "r", "s", "i", "o", "n", ".", "\n", "4", ".", " ", "D", "o", " ", "n",
     "o", "t", " ", "i", "n", "c", "l", "u", "d", "e", " ", "a", "n", "y", " ", "c", "o",
     "m", "m", "e", "n", "t", "a", "r", "y", " ", "o", "u", "t", "s", "i", "d", "e", " ",
     "c", "o", "d", "e", " ", "o", "r", " ", "R", "E", "A", "D", "M", "E", ".", "\n"
  >>

\* summary line pieces (lines 99, 101)
SUM_DASH == <<"-", " ">>

SUM_OPEN == <<" ", "(">>

SUM_PREVIEW == <<")", ":", " ", "p", "r", "e", "v", "i", "e", "w", ":", " ">>

SUM_CLOSE == <<")", ":", " ">>

SUM_BYTES == <<" ", "b", "y", "t", "e", "s">>

\* the two characters backslash, n (line 98)
ESC_NL == <<"\\", "n">>

\* the base64 alphabet, value v at index v + 1 (base64.b64decode, line 81)
B64_ALPHABET ==
  <<
     "A", "B", "C", "D", "E", "F", "G", "H", "I", "J", "K", "L", "M", "N", "O", "P", "Q",
     "R", "S", "T", "U", "V", "W", "X", "Y", "Z", "a", "b", "c", "d", "e", "f", "g", "h",
     "i", "j", "k", "l", "m", "n", "o", "p", "q", "r", "s", "t", "u", "v", "w", "x", "y",
     "z", "0", "1", "2", "3", "4", "5", "6", "7", "8", "9", "+", "/"
  >>

\* the characters of bytes 32..126, byte b at index b - 31
ASCII_PRINTABLE ==
  <<
     " ", "!", "\"", "#", "$", "%", "&", "'", "(", ")", "*", "+", ",", "-", ".", "/", "0",
     "1", "2", "3", "4", "5", "6", "7", "8", "9", ":", ";", "<", "=", ">", "?", "@", "A",
     "B", "C", "D", "E", "F", "G", "H", "I", "J", "K", "L", "M", "N", "O", "P", "Q", "R",
     "S", "T", "U", "V", "W", "X", "Y", "Z", "[", "\\", "]", "^", "_", BT, "a", "b", "c",
     "d", "e", "f", "g", "h", "i", "j", "k", "l", "m", "n", "o", "p", "q", "r", "s", "t",
     "u", "v", "w", "x", "y", "z", "{", "|", "}", "~"
  >>

DIGITS == <<"0", "1", "2", "3", "4", "5", "6", "7", "8", "9">>


-----------------------------------------------------------------------------
(* Python str operations                                                   *)

None == <<>>
Some(s) == <<s>>

\* the characters str.strip() removes
WS == {" ", "\n", "\t", "\r"}

\* the characters str.splitlines() breaks lines at
LineBreaks == {"\n", "\r"}

\* s[i-1:].startswith(p), i counted from 1
StartsWithAt(s, p, i) ==
  /\ i + Len(p) - 1 <= Len(s)
  /\ \A k \in 1..Len(p) : s[i + k - 1] = p[k]

StartsWith(s, p) == StartsWithAt(s, p, 1)

EndsWith(s, p) == Len(p) <= Len(s) /\ StartsWithAt(s, p, Len(s) - Len(p) + 1)

\* s.find(p, from - 1) + 1: the first index >= from where p occurs, 0 if none
FindFrom(s, p, from) ==
  IF \E i \in from..(Len(s) - Len(p) + 1) : StartsWithAt(s, p, i)
  THEN CHOOSE i \in from..(Len(s) - Len(p) + 1) :
         /\ StartsWithAt(s, p, i)
         /\ \A j \in from..(i - 1) : ~StartsWithAt(s, p, j)
  ELSE 0

Find(s, p) == FindFrom(s, p, 1)

\* p in s
Contains(s, p) == Find(s, p) # 0

\* s[a-1:] and s[:b]
From(s, a) == SubSeq(s, a, Len(s))
Upto(s, b) == SubSeq(s, 1, IF b < Len(s) THEN b ELSE Len(s))

\* s.strip()
Strip(s) ==
  IF \A i \in 1..Len(s) : s[i] \in WS THEN <<>>
  ELSE LET a == CHOOSE i \in 1..Len(s) :
                  s[i] \notin WS /\ \A j \in 1..(i - 1) : s[j] \in WS
           b == CHOOSE i \in 1..Len(s) :
                  s[i] \notin WS /\ \A j \in (i + 1)..Len(s) : s[j] \in WS
       IN SubSeq(s, a, b)

\* s.splitlines()[0], for a non-empty s
FirstLine(s) ==
  IF \A i \in 1..Len(s) : s[i] \notin LineBreaks THEN s
  ELSE LET b == CHOOSE i \in 1..Len(s) :
                  s[i] \in LineBreaks /\ \A j \in 1..(i - 1) : s[j] \notin LineBreaks
       IN Upto(s, b - 1)

\* s.split(sep, 1) when sep occurs in s: the text before and after the first sep
SplitOnce(s, sep) ==
  LET i == Find(s, sep)
  IN [before |-> Upto(s, i - 1), after |-> From(s, i + Len(sep))]

\* s.split(sep)[1] when sep occurs in s: the text between the first sep and the next
SplitSecond(s, sep) ==
  LET rest == SplitOnce(s, sep).after
  IN IF Contains(rest, sep) THEN SplitOnce(rest, sep).before ELSE rest

\* s.replace(old, new)
RECURSIVE Replace(_, _, _)
Replace(s, old, new) ==
  IF ~Contains(s, old) THEN s
  ELSE LET p == SplitOnce(s, old)
       IN p.before \o new \o Replace(p.after, old, new)

\* sep.join(xs)
RECURSIVE Join(_, _)
Join(sep, xs) ==
  IF xs = <<>> THEN <<>>
  ELSE IF Len(xs) = 1 THEN xs[1]
  ELSE xs[1] \o sep \o Join(sep, Tail(xs))

\* str(n) for n >= 0
RECURSIVE Str(_)
Str(n) == IF n < 10 THEN <<DIGITS[n + 1]>> ELSE Str(n \div 10) \o <<DIGITS[(n % 10) + 1]>>

\* repr(s) of a str: quoted with ', or with " when s holds a ' and no ";
\* backslash, the quote and the line characters escaped
ReprChar(c, quote) ==
  IF c = "\\" THEN <<"\\", "\\">>
  ELSE IF c = quote THEN <<"\\", c>>
  ELSE IF c = "\n" THEN <<"\\", "n">>
  ELSE IF c = "\t" THEN <<"\\", "t">>
  ELSE IF c = "\r" THEN <<"\\", "r">>
  ELSE <<c>>

RECURSIVE ReprBody(_, _)
ReprBody(s, quote) ==
  IF s = <<>> THEN <<>> ELSE ReprChar(Head(s), quote) \o ReprBody(Tail(s), quote)

ReprStr(s) ==
  LET quote == IF Contains(s, <<"'">>) /\ ~Contains(s, <<"\"">>) THEN "\"" ELSE "'"
  IN <<quote>> \o ReprBody(s, quote) \o <<quote>>

\* repr(xs) of a list of str, as an f-string renders {checks or []}
ReprList(xs) ==
  <<"[">> \o Join(<<",", " ">>, [k \in 1..Len(xs) |-> ReprStr(xs[k])]) \o <<"]">>

-----------------------------------------------------------------------------
(* base64.b64decode(s), validate=False: binascii.a2b_base64 in its default *)
(* mode.  Characters outside the alphabet are skipped; a run of "=" closes *)
(* the input once the open quad is padded out; input ending inside a quad  *)
(* raises binascii.Error.                                                  *)

B64Val(c) ==
  IF \E v \in 1..64 : B64_ALPHABET[v] = c
  THEN (CHOOSE v \in 1..64 : B64_ALPHABET[v] = c) - 1
  ELSE 64

RECURSIVE A2B(_, _, _, _, _)
A2B(s, quad_pos, leftchar, pads, bin) ==
  IF s = <<>> THEN [ok |-> quad_pos = 0, data |-> bin]
  ELSE LET c == Head(s)
           v == B64Val(c)
       IN IF c = "="
          THEN IF quad_pos >= 2 /\ quad_pos + pads + 1 >= 4
               THEN [ok |-> TRUE, data |-> bin]
               ELSE A2B(Tail(s), quad_pos, leftchar,
                        IF quad_pos >= 2 THEN pads + 1 ELSE pads, bin)
          ELSE IF v >= 64 THEN A2B(Tail(s), quad_pos, leftchar, pads, bin)
          ELSE IF quad_pos = 0 THEN A2B(Tail(s), 1, v, 0, bin)
          ELSE IF quad_pos = 1
               THEN A2B(Tail(s), 2, v % 16, 0, Append(bin, leftchar * 4 + v \div 16))
          ELSE IF quad_pos = 2
               THEN A2B(Tail(s), 3, v % 4, 0, Append(bin, leftchar * 16 + v \div 4))
          ELSE A2B(Tail(s), 0, 0, 0, Append(bin, leftchar * 64 + v))

B64Decode(s) == A2B(s, 0, 0, 0, <<>>)

\* bytes.decode("utf-8", errors="ignore") followed by the universal-newline
\* translation of a text-mode read, for bytes that are ASCII (9, 10, 13,
\* 32..126) or can start no UTF-8 sequence (248..255, which are dropped)
ByteChar(b) ==
  IF b = 10 THEN <<"\n">>
  ELSE IF b = 9 THEN <<"\t">>
  ELSE IF b = 13 THEN <<"\r">>
  ELSE IF b >= 32 /\ b <= 126 THEN <<ASCII_PRINTABLE[b - 31]>>
  ELSE <<>>

RECURSIVE Utf8Ignore(_)
Utf8Ignore(bs) == IF bs = <<>> THEN <<>> ELSE ByteChar(Head(bs)) \o Utf8Ignore(Tail(bs))

UniversalNewlines(s) == Replace(Replace(s, <<"\r", "\n">>, <<"\n">>), <<"\r">>, <<"\n">>)

\* open(p, "r", encoding="utf-8", errors="ignore").read(n)
ReadText(bs, n) == Upto(UniversalNewlines(Utf8Ignore(bs)), n)

-----------------------------------------------------------------------------
(* The pure functions of the module                                        *)

\* a slip: the part before the first fence instead of the part after it
StripCodeBlock_FirstPart(text) ==
  IF Contains(text, FENCE) THEN Strip(SplitOnce(text, FENCE).before) ELSE Strip(text)

\* _strip_code_block: text.split(FENCE) has at least two parts whenever
\* FENCE occurs in text, so the inner test of line 110 never fails
_strip_code_block(text) ==
  IF Contains(text, FENCE) THEN Strip(SplitSecond(text, FENCE)) ELSE Strip(text)

\* generate_readme_fallback; checks or [] and attachments_meta or "" are the
\* values themselves (None is the empty sequence here)
generate_readme_fallback(brief, checks, attachments_meta, round_num) ==
  README_T0 \o Str(round_num) \o README_T1 \o brief \o README_T2 \o attachments_meta
    \o README_T3 \o Join(<<"\n">>, checks) \o README_T4

\* a slip: the heading and the word both required
ReadmeSufficient_Both(readme_candidate) ==
  /\ Len(Strip(readme_candidate)) > 50
  /\ Contains(FirstLine(readme_candidate), HASH_SP)
  /\ Contains(readme_candidate, OVERVIEW)

\* a slip: 50 characters already enough
ReadmeSufficient_AtLeast50(readme_candidate) ==
  /\ Len(Strip(readme_candidate)) >= 50
  /\ \/ Contains(FirstLine(readme_candidate), HASH_SP)
     \/ Contains(readme_candidate, OVERVIEW)

\* the test of line 183 on readme_candidate
ReadmeSufficient(readme_candidate) ==
  /\ Len(Strip(readme_candidate)) > 50
  /\ \/ Contains(FirstLine(readme_candidate), HASH_SP)
     \/ Contains(readme_candidate, OVERVIEW)

\* lines 180-185: whether an attempt's text becomes response_text
Accepts(text) ==
  /\ text # <<>>
  /\ Contains(text, MARKER)
  /\ ReadmeSufficient(_strip_code_block(SplitOnce(text, MARKER).after))

\* a slip: the round not looked at
ContextNote_AnyRound(round_num, prev_readme) ==
  IF prev_readme # None /\ prev_readme[1] # <<>>
  THEN CONTEXT_T0 \o prev_readme[1] \o CONTEXT_T1
  ELSE <<>>

\* line 141-142
ContextNote(round_num, prev_readme) ==
  IF round_num = 2 /\ prev_readme # None /\ prev_readme[1] # <<>>
  THEN CONTEXT_T0 \o prev_readme[1] \o CONTEXT_T1
  ELSE <<>>

\* lines 144-172
BasePrompt(brief, checks, round_num, prev_readme, attachments_meta) ==
  PROMPT_T0 \o Str(round_num) \o PROMPT_T1 \o brief \o PROMPT_T2
    \o ContextNote(round_num, prev_readme) \o PROMPT_T3 \o attachments_meta
    \o PROMPT_T4 \o ReprList(checks) \o PROMPT_T5

\* lines 199-210: the fallback response_text
FallbackResponse(brief, checks, attachments_meta, round_num) ==
  FALLBACK_T0 \o brief \o FALLBACK_T1
    \o generate_readme_fallback(brief, checks, attachments_meta, round_num)
    \o FALLBACK_T2

\* line 217: the length under which the parsed README is replaced
MinReadmeLen == 20

\* lines 213-223: files from the final response_text
ParseFinal(response_text, brief, checks, attachments_meta, round_num) ==
  LET fb == generate_readme_fallback(brief, checks, attachments_meta, round_num)
  IN IF Contains(response_text, MARKER)
     THEN LET parts == SplitOnce(response_text, MARKER)
              readme_part == _strip_code_block(parts.after)
          IN [index_html |-> _strip_code_block(parts.before),
              README_md |-> IF Len(Strip(readme_part)) < MinReadmeLen THEN fb
                            ELSE readme_part]
     ELSE [index_html |-> _strip_code_block(response_text), README_md |-> fb]

\* lines 74-82 for one attachment: what decode_attachments does with it.
\* A name with a directory part cannot be opened under TMP_DIR, which holds
\* no directories.
AttName(att) == IF att.name = <<>> THEN DEFAULT_NAME ELSE att.name

OpenFails(name) == Contains(name, <<"/">>)

\* a slip: one file for every attachment
AttPath_OneFile(name) == TMP_DIR \o DEFAULT_NAME

\* line 82
AttPath(name) == TMP_DIR \o name

Decoded(att) ==
  LET name == AttName(att)
  IN IF ~StartsWith(att.url, DATA_SCHEME) THEN [kind |-> "skip", name |-> name]
     ELSE IF ~Contains(att.url, <<",">>) THEN [kind |-> "fail", name |-> name]
     ELSE LET parts == SplitOnce(att.url, <<",">>)
              semi == Find(parts.before, <<";">>)
              head == IF semi = 0 THEN parts.before ELSE Upto(parts.before, semi - 1)
              d == B64Decode(parts.after)
          IN IF ~d.ok \/ OpenFails(name) THEN [kind |-> "fail", name |-> name]
             ELSE [kind |-> "ok", name |-> name,
                   mime |-> Replace(head, DATA_SCHEME, <<>>),
                   data |-> d.data, path |-> AttPath(name)]

\* line 97: the number of characters read for a preview
PreviewChars == 500

\* lines 95-101 for one saved record, the file at its path holding `bytes`
IsTextLike(s) ==
  \/ StartsWith(s.mime, TEXT_MIME)
  \/ \E ext \in {EXT_MD, EXT_TXT, EXT_JSON, EXT_CSV} : EndsWith(s.name, ext)

Preview(bytes) ==
  Upto(Replace(ReadText(bytes, PreviewChars), <<"\n">>, ESC_NL), PreviewChars)

SummaryLine(s, bytes) ==
  IF IsTextLike(s)
  THEN SUM_DASH \o s.name \o SUM_OPEN \o s.mime \o SUM_PREVIEW \o Preview(bytes)
  ELSE SUM_DASH \o s.name \o SUM_OPEN \o s.mime \o SUM_CLOSE \o Str(s.size) \o SUM_BYTES

\* f.write(data) on a file opened "wb" whose content is now `old`: the
\* descriptor writes at offset 0, over whatever another writer left there
WriteAtZero(data, old) == data \o SubSeq(old, Len(data) + 1, Len(old))

\* line 174
max_attempts == 2
-----------------------------------------------------------------------------
(* Inputs                                                                  *)

\* inputs: briefs are built from these pieces
BRIEF_TODO ==
  <<
     "b", "u", "i", "l", "d", " ", "a", " ", "t", "o", "d", "o", " ", "a", "p", "p"
  >>

\* inputs: a check
CHECK_TITLE ==
  <<
     "p", "a", "g", "e", " ", "h", "a", "s", " ", "a", " ", "t", "i", "t", "l", "e"
  >>

\* inputs: a check whose repr is double-quoted
CHECK_QUOTE == <<"i", "t", "'", "s", " ", "d", "o", "n", "e">>

\* inputs: a prior README
OLD_README == <<"#", " ", "O", "l", "d">>

\* inputs: 48 characters of filler, neither whitespace nor part of a literal the code looks for
X48 ==
  <<
     "x", "x", "x", "x", "x", "x", "x", "x", "x", "x", "x", "x", "x", "x", "x", "x", "x",
     "x", "x", "x", "x", "x", "x", "x", "x", "x", "x", "x", "x", "x", "x", "x", "x", "x",
     "x", "x", "x", "x", "x", "x", "x", "x", "x", "x", "x", "x", "x", "x"
  >>

\* inputs: a code section
CODE_HTML == <<"<", "p", ">", "h", "i", "<", "/", "p", ">">>

\* inputs: a README heading line
TITLE_LINE == <<"#", " ", "T", "o", "d", "o", "\n">>

INTRO_LINE == <<"i", "n", "t", "r", "o", "\n">>

NPM_I == <<"n", "p", "m", " ", "i">>

LANG_HTML == <<"h", "t", "m", "l", "\n">>

\* inputs: attachment urls and names; aGVsbG8= is base64 of hello
URL_HELLO ==
  <<
     "d", "a", "t", "a", ":", "t", "e", "x", "t", "/", "p", "l", "a", "i", "n", ";", "b",
     "a", "s", "e", "6", "4", ",", "a", "G", "V", "s", "b", "G", "8", "="
  >>

\* Ynll is base64 of bye
URL_BYE ==
  <<
     "d", "a", "t", "a", ":", "t", "e", "x", "t", "/", "p", "l", "a", "i", "n", ";", "b",
     "a", "s", "e", "6", "4", ",", "Y", "n", "l", "l"
  >>

\* base64 of hello, a line feed, world
URL_HELLO_WORLD ==
  <<
     "d", "a", "t", "a", ":", "t", "e", "x", "t", "/", "p", "l", "a", "i", "n", ";", "b",
     "a", "s", "e", "6", "4", ",", "a", "G", "V", "s", "b", "G", "8", "K", "d", "2", "9",
     "y", "b", "G", "Q", "="
  >>

\* seven data characters and no padding: b64decode raises
URL_TRUNCATED ==
  <<
     "d", "a", "t", "a", ":", "t", "e", "x", "t", "/", "p", "l", "a", "i", "n", ";", "b",
     "a", "s", "e", "6", "4", ",", "a", "G", "V", "s", "b", "G", "8"
  >>

\* no comma: the unpacking of line 79 raises
URL_NO_COMMA ==
  <<
     "d", "a", "t", "a", ":", "t", "e", "x", "t", "/", "p", "l", "a", "i", "n"
  >>

\* not an inline data URI
URL_REMOTE ==
  <<
     "h", "t", "t", "p", "s", ":", "/", "/", "e", "x", "a", "m", "p", "l", "e", ".", "c",
     "o", "m", "/", "l", "o", "g", "o", ".", "p", "n", "g"
  >>

\* base64 of the single byte 255
URL_PNG_FF ==
  <<
     "d", "a", "t", "a", ":", "i", "m", "a", "g", "e", "/", "p", "n", "g", ";", "b", "a",
     "s", "e", "6", "4", ",", "/", "w", "=", "="
  >>

NAME_A_TXT == <<"a", ".", "t", "x", "t">>

NAME_C_TXT == <<"c", ".", "t", "x", "t">>

NAME_LOGO == <<"l", "o", "g", "o", ".", "p", "n", "g">>

NAME_SUB == <<"s", "u", "b", "/", "a", ".", "t", "x", "t">>

NAME_NOTES == <<"n", "o", "t", "e", "s">>


\* the concatenation of a sequence of texts
RECURSIVE Flat(_)
Flat(ts) == IF ts = <<>> THEN <<>> ELSE Head(ts) \o Flat(Tail(ts))

\* every text made of at most n pieces from T
Texts(T, n) == {Flat(ts) : ts \in UNION {[1..k -> T] : k \in 0..n}}

\* briefs: at most MaxBriefPieces pieces
MaxBriefPieces == 2
BriefPieces == {BRIEF_TODO, FENCE, MARKER}
Briefs == Texts(BriefPieces, MaxBriefPieces)

\* remote texts, enumerated: at most MaxTextPieces pieces
MaxTextPieces == 4
TextPieces == {MARKER, FENCE, HASH_SP, OVERVIEW, X48, <<"x">>, <<"\n">>}
EnumeratedTexts == Texts(TextPieces, MaxTextPieces)

\* remote texts, chosen: a README section of 55 characters under a heading
README_55 == TITLE_LINE \o X48
ChosenTexts ==
  { CODE_HTML \o <<"\n">> \o MARKER \o <<"\n">> \o README_55,
    FENCE \o LANG_HTML \o CODE_HTML \o <<"\n">> \o FENCE \o <<"\n">> \o MARKER
      \o <<"\n">> \o FENCE \o README_55 \o FENCE \o <<"\n">>,
    <<>>,
    CODE_HTML,
    CODE_HTML \o MARKER \o TITLE_LINE,
    CODE_HTML \o MARKER \o <<"\n">> \o README_55 \o <<"\n">> \o FENCE \o NPM_I \o FENCE,
    CODE_HTML \o MARKER \o INTRO_LINE \o FENCE \o README_55 \o FENCE,
    CODE_HTML \o MARKER \o X48 \o <<" ">> \o OVERVIEW,
    CODE_HTML \o MARKER \o X48 \o <<" ">> \o X48 \o <<" ">> \o X48 \o <<" ">> \o X48
      \o <<" ", "x", "x", "x", "x">>,
    MARKER \o README_55 }

Returned(t) == [ok |-> TRUE, text |-> t]
Raised == [ok |-> FALSE, text |-> <<>>]

\* what one call of ai_pipe_generate (lines 20-64) may do: return a text, or
\* raise (requests.post, raise_for_status and r.json raise).  `last` is what
\* the previous call of the invocation returned, None if there was none.
\*   "chosen":     any of the chosen texts, or raise, call by call
\*   "enumerated": a remote that answers every call of an invocation alike:
\*                 any of the enumerated or chosen texts, or raise
\*   "few":        one good text, the empty text, or raise, call by call
RemoteOutcomes(s, last) ==
  IF s = "chosen" THEN {Returned(t) : t \in ChosenTexts} \cup {Raised}
  ELSE IF s = "enumerated"
       THEN IF last = None
            THEN {Returned(t) : t \in EnumeratedTexts \cup ChosenTexts} \cup {Raised}
            ELSE {Returned(last[1])}
  ELSE {Returned(CODE_HTML \o MARKER \o README_55), Returned(<<>>), Raised}

\* attachments
ATT_HELLO == [name |-> NAME_A_TXT, url |-> URL_HELLO]
ATT_BYE == [name |-> NAME_A_TXT, url |-> URL_BYE]
ATT_LINES == [name |-> NAME_NOTES, url |-> URL_HELLO_WORLD]
ATT_C_BYE == [name |-> NAME_C_TXT, url |-> URL_BYE]
ATT_REMOTE == [name |-> NAME_LOGO, url |-> URL_REMOTE]
ATT_TRUNCATED == [name |-> NAME_C_TXT, url |-> URL_TRUNCATED]
ATT_NO_COMMA == [name |-> NAME_C_TXT, url |-> URL_NO_COMMA]
ATT_SUBDIR == [name |-> NAME_SUB, url |-> URL_HELLO]
ATT_UNNAMED_PNG == [name |-> <<>>, url |-> URL_PNG_FF]
ATT_NO_URL == [name |-> NAME_LOGO, url |-> <<>>]

\* attachment lists: at most MaxAttachments from Attachments
MaxAttachments == 2
Attachments ==
  {ATT_HELLO, ATT_BYE, ATT_LINES, ATT_REMOTE, ATT_TRUNCATED, ATT_NO_COMMA, ATT_SUBDIR,
   ATT_UNNAMED_PNG}
AttachmentLists == UNION {[1..k -> Attachments] : k \in 0..MaxAttachments}

Request(b, a, c, r, v) ==
  [brief |-> b, attachments |-> a, checks |-> c, round_num |-> r, prev_readme |-> v]

\* a list on which every branch of decode_attachments is taken
MIXED_LIST == <<ATT_REMOTE, ATT_TRUNCATED, ATT_SUBDIR, ATT_HELLO, ATT_UNNAMED_PNG>>

Rounds == {1, 2}
PriorReadmes == {None, Some(<<>>), Some(OLD_README)}
CheckLists == {<<>>, <<CHECK_TITLE, CHECK_QUOTE>>}

-----------------------------------------------------------------------------
(* State                                                                   *)

VARIABLES
  stub,             \* which behaviours the remote text generator may show
  fs,               \* the files under TMP_DIR: path -> bytes
  req,              \* per invocation: the arguments of generate_app_code
  pc,               \* per invocation: where control is
  idx,              \* per invocation: position of the running for loop
  saved,            \* per invocation: decode_attachments' list
  summaries,        \* per invocation: summarize_attachment_meta's list
  attachments_meta, \* per invocation
  base_prompt,      \* per invocation
  attempt,          \* per invocation: the loop variable of line 176
  calls,            \* per invocation: how often ai_pipe_generate was called
  text,             \* per invocation: the last value ai_pipe_generate returned
  response_text,    \* per invocation
  result            \* per invocation: the value generate_app_code returned

vars == <<stub, fs, req, pc, idx, saved, summaries, attachments_meta, base_prompt,
          attempt, calls, text, response_text, result>>

Procs == DOMAIN pc

-----------------------------------------------------------------------------
(* decode_attachments, lines 71-88: one loop iteration per step; the open  *)
(* of line 83 (which truncates) and the write of line 84 are two steps     *)

CurrentAtt(p) == req[p].attachments[idx[p]]

\* line 76-77: not an inline data URI
DecodeSkip(p) ==
  /\ pc[p] = "decode"
  /\ idx[p] <= Len(req[p].attachments)
  /\ Decoded(CurrentAtt(p)).kind = "skip"
  /\ idx' = [idx EXCEPT ![p] = @ + 1]
  /\ UNCHANGED <<stub, fs, req, pc, saved, summaries, attachments_meta, base_prompt,
                 attempt, calls, text, response_text, result>>

\* a slip: the exception handler around the loop instead of inside it
DecodeFail_EndsLoop(p) ==
  /\ pc[p] = "decode"
  /\ idx[p] <= Len(req[p].attachments)
  /\ Decoded(CurrentAtt(p)).kind = "fail"
  /\ idx' = [idx EXCEPT ![p] = Len(req[p].attachments) + 1]
  /\ UNCHANGED <<stub, fs, req, pc, saved, summaries, attachments_meta, base_prompt,
                 attempt, calls, text, response_text, result>>

\* lines 86-87: split, b64decode or open raised
DecodeFail(p) ==
  /\ pc[p] = "decode"
  /\ idx[p] <= Len(req[p].attachments)
  /\ Decoded(CurrentAtt(p)).kind = "fail"
  /\ idx' = [idx EXCEPT ![p] = @ + 1]
  /\ UNCHANGED <<stub, fs, req, pc, saved, summaries, attachments_meta, base_prompt,
                 attempt, calls, text, response_text, result>>

\* lines 79-83: decoded, and the file opened for writing
DecodeOpen(p) ==
  /\ pc[p] = "decode"
  /\ idx[p] <= Len(req[p].attachments)
  /\ Decoded(CurrentAtt(p)).kind = "ok"
  /\ fs' = (Decoded(CurrentAtt(p)).path :> <<>>) @@ fs
  /\ pc' = [pc EXCEPT ![p] = "write"]
  /\ UNCHANGED <<stub, req, idx, saved, summaries, attachments_meta, base_prompt,
                 attempt, calls, text, response_text, result>>

\* lines 84-85: the bytes written, the file closed, the record appended
DecodeWrite(p) ==
  /\ pc[p] = "write"
  /\ LET d == Decoded(CurrentAtt(p))
     IN /\ fs' = [fs EXCEPT ![d.path] = WriteAtZero(d.data, @)]
        /\ saved' = [saved EXCEPT ![p] =
                       Append(@, [name |-> d.name, path |-> d.path, mime |-> d.mime,
                                  size |-> Len(d.data)])]
  /\ idx' = [idx EXCEPT ![p] = @ + 1]
  /\ pc' = [pc EXCEPT ![p] = "decode"]
  /\ UNCHANGED <<stub, req, summaries, attachments_meta, base_prompt, attempt, calls,
                 text, response_text, result>>

\* line 88
DecodeReturn(p) ==
  /\ pc[p] = "decode"
  /\ idx[p] > Len(req[p].attachments)
  /\ pc' = [pc EXCEPT ![p] = "summarize"]
  /\ idx' = [idx EXCEPT ![p] = 1]
  /\ UNCHANGED <<stub, fs, req, saved, summaries, attachments_meta, base_prompt,
                 attempt, calls, text, response_text, result>>

(* summarize_attachment_meta, lines 90-104: one record per step            *)

SummarizeOne(p) ==
  /\ pc[p] = "summarize"
  /\ idx[p] <= Len(saved[p])
  /\ LET s == saved[p][idx[p]]
     IN summaries' = [summaries EXCEPT ![p] = Append(@, SummaryLine(s, fs[s.path]))]
  /\ idx' = [idx EXCEPT ![p] = @ + 1]
  /\ UNCHANGED <<stub, fs, req, pc, saved, attachments_meta, base_prompt, attempt,
                 calls, text, response_text, result>>

\* line 104
SummarizeReturn(p) ==
  /\ pc[p] = "summarize"
  /\ idx[p] > Len(saved[p])
  /\ attachments_meta' = [attachments_meta EXCEPT ![p] = Join(<<"\n">>, summaries[p])]
  /\ pc' = [pc EXCEPT ![p] = "prompt"]
  /\ UNCHANGED <<stub, fs, req, idx, saved, summaries, base_prompt, attempt, calls,
                 text, response_text, result>>

(* generate_app_code, lines 140-224                                        *)

\* lines 140-175
BuildPrompt(p) ==
  /\ pc[p] = "prompt"
  /\ base_prompt' = [base_prompt EXCEPT ![p] =
       BasePrompt(req[p].brief, req[p].checks, req[p].round_num, req[p].prev_readme,
                  attachments_meta[p])]
  /\ attempt' = [attempt EXCEPT ![p] = 1]
  /\ pc' = [pc EXCEPT ![p] = "attempt"]
  /\ UNCHANGED <<stub, fs, req, idx, saved, summaries, attachments_meta, calls, text,
                 response_text, result>>

\* lines 178-185: the call returns a text that passes; break
CallAccepted(p) ==
  /\ pc[p] = "attempt"
  /\ \E r \in RemoteOutcomes(stub, text[p]) :
       /\ r.ok
       /\ Accepts(r.text)
       /\ text' = [text EXCEPT ![p] = Some(r.text)]
       /\ response_text' = [response_text EXCEPT ![p] = Some(r.text)]
  /\ calls' = [calls EXCEPT ![p] = @ + 1]
  /\ pc' = [pc EXCEPT ![p] = "parse"]
  /\ UNCHANGED <<stub, fs, req, idx, saved, summaries, attachments_meta, base_prompt,
                 attempt, result>>

\* a slip: one attempt too many
CallRejected_OneMore(p) ==
  /\ pc[p] = "attempt"
  /\ \E r \in RemoteOutcomes(stub, text[p]) :
       /\ r.ok
       /\ ~Accepts(r.text)
       /\ text' = [text EXCEPT ![p] = Some(r.text)]
  /\ calls' = [calls EXCEPT ![p] = @ + 1]
  /\ IF attempt[p] <= max_attempts
     THEN /\ attempt' = [attempt EXCEPT ![p] = @ + 1]
          /\ pc' = pc
     ELSE /\ attempt' = attempt
          /\ pc' = [pc EXCEPT ![p] = "fallback"]
  /\ UNCHANGED <<stub, fs, req, idx, saved, summaries, attachments_meta, base_prompt,
                 response_text, result>>

\* lines 178-195: the call returns a text that does not pass; continue, or
\* leave the loop after the last attempt
CallRejected(p) ==
  /\ pc[p] = "attempt"
  /\ \E r \in RemoteOutcomes(stub, text[p]) :
       /\ r.ok
       /\ ~Accepts(r.text)
       /\ text' = [text EXCEPT ![p] = Some(r.text)]
  /\ calls' = [calls EXCEPT ![p] = @ + 1]
  /\ IF attempt[p] < max_attempts
     THEN /\ attempt' = [attempt EXCEPT ![p] = @ + 1]
          /\ pc' = pc
     ELSE /\ attempt' = attempt
          /\ pc' = [pc EXCEPT ![p] = "fallback"]
  /\ UNCHANGED <<stub, fs, req, idx, saved, summaries, attachments_meta, base_prompt,
                 response_text, result>>

\* lines 31-32: requests.post or raise_for_status raises; nothing between
\* there and the caller of generate_app_code catches it
CallRaises(p) ==
  /\ pc[p] = "attempt"
  /\ \E r \in RemoteOutcomes(stub, text[p]) : ~r.ok
  /\ calls' = [calls EXCEPT ![p] = @ + 1]
  /\ pc' = [pc EXCEPT ![p] = "raised"]
  /\ UNCHANGED <<stub, fs, req, idx, saved, summaries, attachments_meta, base_prompt,
                 attempt, text, response_text, result>>

\* lines 197-210
Fallback(p) ==
  /\ pc[p] = "fallback"
  /\ response_text' = [response_text EXCEPT ![p] =
       Some(FallbackResponse(req[p].brief, req[p].checks, attachments_meta[p],
                             req[p].round_num))]
  /\ pc' = [pc EXCEPT ![p] = "parse"]
  /\ UNCHANGED <<stub, fs, req, idx, saved, summaries, attachments_meta, base_prompt,
                 attempt, calls, text, result>>

\* lines 212-224
Parse(p) ==
  /\ pc[p] = "parse"
  /\ result' = [result EXCEPT ![p] =
       Some([files |-> ParseFinal(response_text[p][1], req[p].brief, req[p].checks,
                                  attachments_meta[p], req[p].round_num),
             attachments |-> saved[p]])]
  /\ pc' = [pc EXCEPT ![p] = "done"]
  /\ UNCHANGED <<stub, fs, req, idx, saved, summaries, attachments_meta, base_prompt,
                 attempt, calls, text, response_text>>

Next ==
  \/ \E p \in Procs : DecodeSkip(p)
  \/ \E p \in Procs : DecodeFail(p)
  \/ \E p \in Procs : DecodeOpen(p)
  \/ \E p \in Procs : DecodeWrite(p)
  \/ \E p \in Procs : DecodeReturn(p)
  \/ \E p \in Procs : SummarizeOne(p)
  \/ \E p \in Procs : SummarizeReturn(p)
  \/ \E p \in Procs : BuildPrompt(p)
  \/ \E p \in Procs : CallAccepted(p)
  \/ \E p \in Procs : CallRejected(p)
  \/ \E p \in Procs : CallRaises(p)
  \/ \E p \in Procs : Fallback(p)
  \/ \E p \in Procs : Parse(p)

-----------------------------------------------------------------------------
(* Specifications                                                          *)

InitWith(procs, requests, s) ==
  /\ stub = s
  /\ fs = <<>>
  /\ req \in [procs -> requests]
  /\ pc = [p \in procs |-> "decode"]
  /\ idx = [p \in procs |-> 1]
  /\ saved = [p \in procs |-> <<>>]
  /\ summaries = [p \in procs |-> <<>>]
  /\ attachments_meta = [p \in procs |-> <<>>]
  /\ base_prompt = [p \in procs |-> <<>>]
  /\ attempt = [p \in procs |-> 0]
  /\ calls = [p \in procs |-> 0]
  /\ text = [p \in procs |-> None]
  /\ response_text = [p \in procs |-> None]
  /\ result = [p \in procs |-> None]

\* one invocation, any request, the chosen remote texts
Init ==
  InitWith({1},
           {Request(b, a, c, r, v) : b \in Briefs, a \in {<<>>, MIXED_LIST},
                                     c \in CheckLists, r \in Rounds, v \in PriorReadmes},
           "chosen")

Spec == Init /\ [][Next]_vars

\* one invocation, one request, the enumerated remote texts
InitText ==
  InitWith({1}, {Request(BRIEF_TODO, MIXED_LIST, <<CHECK_TITLE>>, 1, None)}, "enumerated")

SpecText == InitText /\ [][Next]_vars

\* one invocation, the enumerated attachment lists
InitAttachments ==
  InitWith({1}, {Request(BRIEF_TODO, a, <<>>, 1, None) : a \in AttachmentLists}, "few")

SpecAttachments == InitAttachments /\ [][Next]_vars

\* two invocations at once, sharing TMP_DIR
InitConcurrent ==
  InitWith({1, 2},
           {Request(BRIEF_TODO, a, <<>>, 1, None) :
              a \in {<<ATT_HELLO>>, <<ATT_BYE>>, <<ATT_C_BYE, ATT_REMOTE, ATT_TRUNCATED>>}},
           "few")

SpecConcurrent == InitConcurrent /\ [][Next]_vars
-----------------------------------------------------------------------------
(* Properties                                                              *)

\* texts the claims name
FALLBACK_NOTE ==
  <<
     "T", "h", "i", "s", " ", "R", "E", "A", "D", "M", "E", " ", "w", "a", "s", " ", "g",
     "e", "n", "e", "r", "a", "t", "e", "d", " ", "a", "s", " ", "a", " ", "f", "a", "l",
     "l", "b", "a", "c", "k"
  >>

AUTO_README ==
  <<
     "A", "u", "t", "o", "-", "g", "e", "n", "e", "r", "a", "t", "e", "d", " ", "R", "E",
     "A", "D", "M", "E"
  >>

ROUND_SP == <<"R", "o", "u", "n", "d", " ">>

REVISE ==
  <<
     "R", "e", "v", "i", "s", "e", " ", "a", "n", "d", " ", "e", "n", "h", "a", "n", "c",
     "e"
  >>

\* the end of the fallback page: fallback response template, piece 1 up to the marker (lines 204-207)
FALLBACK_T1_PAGE ==
  <<
     "<", "/", "p", ">", "\n", " ", " ", "<", "/", "b", "o", "d", "y", ">", "\n", "<", "/",
     "h", "t", "m", "l", ">", "\n", "\n"
  >>


HasReturned(p) == pc[p] = "done"
Files(p) == result[p][1].files

\* the invocation's last remote text was taken as response_text
Accepted(p) == text[p] # None /\ response_text[p] = text[p]

\* every attempt of the finished invocation was turned down
Exhausted(p) == pc[p] = "done" /\ text[p] # None /\ response_text[p] # text[p]

Before(t) == SplitOnce(t, MARKER).before
After(t) == SplitOnce(t, MARKER).after

\* C1: whatever the request and the remote do, the result generate_app_code
\* returns has a non-empty index.html and a non-empty README.md.
C1_FilesNonEmpty ==
  \A p \in Procs :
    HasReturned(p) => Files(p).index_html # <<>> /\ Files(p).README_md # <<>>

\* C2: a transport failure of a remote call never surfaces to the caller of
\* generate_app_code: it costs one attempt, and an invocation whose calls all
\* fail returns the fallback README ("Auto-generated README", "Round <round>")
\* and an index.html holding the brief.
C2_TransportFailureRecovered ==
  \A p \in Procs :
    /\ pc[p] # "raised"
    /\ HasReturned(p) /\ text[p] = None =>
         /\ Contains(Files(p).README_md, AUTO_README)
         /\ Contains(Files(p).README_md, ROUND_SP \o Str(req[p].round_num))
         /\ Contains(Files(p).index_html, req[p].brief)

\* what C3 asks of a document section, and of the result
DocumentLooksGood(d) == Len(d) > 50 /\ Contains(FirstLine(d), HASH_SP)

ReturnedVerbatim(p) ==
  /\ calls[p] = 1
  /\ Accepted(p)
  /\ pc[p] \in {"parse", "done"}
  /\ HasReturned(p) =>
       /\ Files(p).index_html = _strip_code_block(Before(text[p][1]))
       /\ Files(p).README_md = _strip_code_block(After(text[p][1]))

\* C3 as claimed: a remote text with the marker whose document section (the
\* text after the first marker, trimmed) has "# " in its first line and more
\* than 50 characters is accepted on the first attempt and returned as its
\* two fence-stripped sections, with no fallback.
C3_Original ==
  \A p \in Procs :
    (/\ text[p] # None
     /\ Contains(text[p][1], MARKER)
     /\ DocumentLooksGood(Strip(After(text[p][1])))) => ReturnedVerbatim(p)

\* C3: a remote text with the marker whose fence-stripped document section
\* has "# " in its first line and more than 50 characters is accepted on the
\* first attempt; index.html is the fence-stripped text before the marker,
\* README.md the fence-stripped text after it, and no fallback text is used.
C3_GoodDocumentReturned ==
  \A p \in Procs :
    (/\ text[p] # None
     /\ Contains(text[p][1], MARKER)
     /\ DocumentLooksGood(_strip_code_block(After(text[p][1])))) => ReturnedVerbatim(p)

\* a good document with a code section was returned
C3_Witness ==
  \E p \in Procs :
    /\ HasReturned(p)
    /\ Contains(text[p][1], MARKER)
    /\ DocumentLooksGood(_strip_code_block(After(text[p][1])))
    /\ Contains(After(text[p][1]), FENCE)
    /\ Files(p).index_html # <<>>
    /\ Files(p).README_md = _strip_code_block(After(text[p][1]))

\* C4: when no attempt was accepted, README.md is the fallback document and
\* holds the fallback note, and index.html is the fallback page and holds
\* the brief, whatever the brief, the checks and the attachment previews.
C4_FallbackRecognisable ==
  \A p \in Procs :
    Exhausted(p) =>
      /\ Strip(Files(p).README_md) =
           Strip(generate_readme_fallback(req[p].brief, req[p].checks,
                                          attachments_meta[p], req[p].round_num))
      /\ Contains(Files(p).README_md, FALLBACK_NOTE)
      /\ Files(p).index_html = Strip(FALLBACK_T0 \o req[p].brief \o FALLBACK_T1_PAGE)
      /\ Contains(Files(p).index_html, req[p].brief)

\* the state and the step of the retry loop, as seen from its calls
C5_CallsInState(p) ==
  /\ calls[p] <= 2
  /\ pc[p] = "attempt" => /\ calls[p] = attempt[p] - 1
                          /\ response_text[p] = None
                          /\ calls[p] = 1 => text[p] # None /\ ~Accepts(text[p][1])
  /\ calls[p] = 1 /\ text[p] # None /\ ~Accepts(text[p][1]) => pc[p] = "attempt"
  /\ calls[p] = 1 /\ text[p] # None /\ Accepts(text[p][1]) =>
       Accepted(p) /\ pc[p] \in {"parse", "done"}
  /\ calls[p] = 2 /\ pc[p] # "raised" /\ ~Accepts(text[p][1]) =>
       /\ pc[p] \in {"fallback", "parse", "done"}
       /\ pc[p] = "fallback" => response_text[p] = None
       /\ pc[p] # "fallback" =>
            response_text[p] = Some(FallbackResponse(req[p].brief, req[p].checks,
                                                     attachments_meta[p],
                                                     req[p].round_num))

C5_CallStep(p) ==
  calls'[p] # calls[p] =>
    /\ calls'[p] = calls[p] + 1
    /\ pc[p] = "attempt"
    /\ ~Accepted(p)

\* C5: one invocation calls the remote text generator at most twice, one
\* call after the other; the second call is made exactly when the first
\* returned a text that was turned down; no call follows an accepted attempt;
\* after two turned-down attempts control is at the fallback synthesis with no
\* response_text.
C5_BoundedSequentialCalls ==
  /\ [](\A p \in Procs : C5_CallsInState(p))
  /\ [][\A p \in Procs : C5_CallStep(p)]_vars

\* a second call was made, after a first text that was turned down, and its
\* text was turned down too
C5_Witness ==
  \E p \in Procs : calls[p] = 2 /\ pc[p] = "fallback" /\ ~Accepts(text[p][1])

\* the test on a document section d
GateOn(d) ==
  /\ Len(d) > 50
  /\ Contains(FirstLine(d), HASH_SP) \/ Contains(d, OVERVIEW)

\* C6 as claimed: an attempt's text is accepted exactly when it holds the
\* marker and its trimmed document section has more than 50 characters and
\* "# " in its first line or "Overview" anywhere.
C6_Original ==
  \A p \in Procs :
    text[p] # None =>
      (Accepted(p) <=>
         Contains(text[p][1], MARKER) /\ GateOn(Strip(After(text[p][1]))))

\* the fence-stripped form of a section, read off the text
FenceStripped(t) ==
  IF ~Contains(t, FENCE) THEN Strip(t)
  ELSE LET i == Find(t, FENCE)
           j == FindFrom(t, FENCE, i + Len(FENCE))
       IN Strip(SubSeq(t, i + Len(FENCE), IF j = 0 THEN Len(t) ELSE j - 1))

\* C6: an attempt's text is accepted exactly when it holds the marker and its
\* fence-stripped document section (the trimmed text between the first two
\* fences if it holds a fence, the trimmed section otherwise) has more than
\* 50 characters and "# " in its first line or "Overview" anywhere.  So a
\* fence-free section of 51 characters starting "# " is accepted, one of 50
\* is not, and one of 200 with neither "# " in its first line nor "Overview"
\* is not.
C6_QualityGate ==
  \A p \in Procs :
    text[p] # None =>
      /\ Accepted(p) <=>
           Contains(text[p][1], MARKER) /\ GateOn(FenceStripped(After(text[p][1])))
      /\ Contains(text[p][1], MARKER) /\ ~Contains(text[p][1], FENCE) =>
           LET d == Strip(After(text[p][1]))
           IN /\ Len(d) = 51 /\ StartsWith(d, HASH_SP) => Accepted(p)
              /\ Len(d) = 50 => ~Accepted(p)
              /\ (Len(d) = 200 /\ ~Contains(FirstLine(d), HASH_SP)
                    /\ ~Contains(d, OVERVIEW)) => ~Accepted(p)

\* a document section of exactly 51 characters starting "# " was accepted
C6_Witness ==
  \E p \in Procs :
    /\ Accepted(p)
    /\ ~Contains(text[p][1], FENCE)
    /\ Len(Strip(After(text[p][1]))) = 51
    /\ StartsWith(Strip(After(text[p][1])), HASH_SP)

\* the texts C7 is stated of, and what it says of one text
Sections(t) ==
  IF Contains(t, MARKER) THEN {t, Before(t), After(t)} ELSE {t}

FenceCount(t) == Cardinality({i \in 1..Len(t) : StartsWithAt(t, FENCE, i)})

C7_StripProperties(t) ==
  /\ ~Contains(t, FENCE) => _strip_code_block(t) = Strip(t)
  /\ LET i == Find(t, FENCE)
         j == FindFrom(t, FENCE, i + Len(FENCE))
     IN i # 0 /\ j # 0 =>
          _strip_code_block(t) = Strip(SubSeq(t, i + Len(FENCE), j - 1))
  /\ _strip_code_block(_strip_code_block(t)) = _strip_code_block(t)

\* C7: _strip_code_block of a text without a fence is the text trimmed; of a
\* text with two or more fences it is the trimmed text between the first and
\* the second; and stripping a second time changes nothing.  Stated of every
\* text the remote returned and of its two sections.
C7_FenceStripping ==
  \A p \in Procs :
    text[p] # None => \A t \in Sections(text[p][1]) : C7_StripProperties(t)

\* the remote returned a text wrapped in one fence pair, with content, and
\* the README of the result is that content
C7_Witness ==
  \E p \in Procs :
    /\ HasReturned(p)
    /\ Accepted(p)
    /\ FenceCount(After(text[p][1])) = 2
    /\ StartsWith(Strip(After(text[p][1])), FENCE)
    /\ EndsWith(Strip(After(text[p][1])), FENCE)
    /\ Files(p).README_md # <<>>
    /\ Files(p).README_md = _strip_code_block(After(text[p][1]))

\* which attachments can be materialised, read off the attachment
Materialisable(att) ==
  /\ StartsWith(att.url, DATA_SCHEME)
  /\ Contains(att.url, <<",">>)
  /\ B64Decode(From(att.url, Find(att.url, <<",">>) + 1)).ok
  /\ ~Contains(AttName(att), <<"/">>)

PayloadOf(att) == B64Decode(From(att.url, Find(att.url, <<",">>) + 1)).data

RECURSIVE Materialised(_)
Materialised(atts) ==
  IF atts = <<>> THEN <<>>
  ELSE IF Materialisable(Head(atts)) THEN <<Head(atts)>> \o Materialised(Tail(atts))
  ELSE Materialised(Tail(atts))

\* the attachments decode_attachments has been through
Handled(p) ==
  IF pc[p] \in {"decode", "write"} THEN SubSeq(req[p].attachments, 1, idx[p] - 1)
  ELSE req[p].attachments

\* C8: decode_attachments returns, in input order, one record for exactly
\* the attachments whose url is an inline data URI with a payload that
\* decodes and a file that can be written; the others are passed over,
\* nothing is raised, and the attachments after a failed one are still
\* materialised.
C8_PartialFailureTolerant ==
  \A p \in Procs :
    LET done == Materialised(Handled(p))
    IN /\ Len(saved[p]) = Len(done)
       /\ \A k \in 1..Len(done) :
            /\ saved[p][k].name = AttName(done[k])
            /\ saved[p][k].size = Len(PayloadOf(done[k]))
            /\ saved[p][k].path = TMP_DIR \o AttName(done[k])
       /\ pc[p] \in {"decode", "write"} => idx[p] <= Len(req[p].attachments) + 1
       /\ pc[p] = "raised" => calls[p] > 0

\* an attachment that failed to decode was followed by one that was saved
C8_Witness ==
  \E p \in Procs :
    /\ pc[p] = "summarize"
    /\ Len(req[p].attachments) = 2
    /\ StartsWith(req[p].attachments[1].url, DATA_SCHEME)
    /\ ~Materialisable(req[p].attachments[1])
    /\ Len(saved[p]) = 1
    /\ saved[p][1].name = AttName(req[p].attachments[2])

\* the prompt the same request gives with no prior document
PromptBuilt(p) == pc[p] \notin {"decode", "write", "summarize", "prompt"}

PromptWithoutPrior(p) ==
  BasePrompt(req[p].brief, req[p].checks, req[p].round_num, None, attachments_meta[p])

OwnLine(p, k) ==
  SummaryLine(saved[p][k], PayloadOf(Materialised(req[p].attachments)[k]))

NameClash(p, k) ==
  \/ \E q \in Procs \ {p} : \E a \in 1..Len(req[q].attachments) :
       /\ Materialisable(req[q].attachments[a])
       /\ AttName(req[q].attachments[a]) = saved[p][k].name
  \/ \E j \in 1..Len(Materialised(req[p].attachments)) :
       /\ j # k
       /\ AttName(Materialised(req[p].attachments)[j]) = saved[p][k].name

\* C10: TMP_DIR is shared and unguarded.  An invocation's record always
\* reports the size of the bytes it decoded itself, and a preview of a saved
\* attachment differs from the preview of those bytes only when another
\* attachment, of a concurrent invocation or of the same one, is materialised
\* under the same name.
C10_PreviewOwnBytesUnlessNameClash ==
  \A p \in Procs :
    \A k \in 1..Len(summaries[p]) :
      /\ saved[p][k].size = Len(PayloadOf(Materialised(req[p].attachments)[k]))
      /\ summaries[p][k] # OwnLine(p, k) => NameClash(p, k)

\* two invocations saved the same name with different bytes, and one of them
\* built a prompt that shows the other's bytes while its record reports the
\* size of its own
C10_Witness ==
  \E p \in Procs : \E q \in Procs \ {p} :
    /\ PromptBuilt(p)
    /\ Len(saved[p]) = 1 /\ Len(saved[q]) = 1
    /\ saved[p][1].name = saved[q][1].name
    /\ saved[p][1].size # saved[q][1].size
    /\ summaries[p][1] # OwnLine(p, 1)
    /\ summaries[p][1] =
         SummaryLine(saved[p][1], PayloadOf(Materialised(req[q].attachments)[1]))
    /\ Contains(base_prompt[p], summaries[p][1])
    /\ saved[p][1].size = Len(PayloadOf(Materialised(req[p].attachments)[1]))
====
